---- MODULE Spec2Model ----
(***************************************************************************)
(* Model of app.py: the /gateway handler, its bounded fan-out over SITES   *)
(* (fetch_site under an asyncio.Semaphore, joined by asyncio.gather) and   *)
(* the verdict fold decide_overall.                                        *)
(*                                                                         *)
(* Text is modelled as sequences of one-character strings, so split, join, *)
(* upper, substring search and percent-encoding are computed.              *)
(***************************************************************************)
EXTENDS Integers, Sequences, FiniteSets, TLC

(* ------------------------------ bounds -------------------------------- *)
\* number of configured sites (the first NumSites entries of SITES)
NumSites == 6
\* longest cc text enumerated by the planning specification
MaxCcLen == 7
\* longest result list enumerated by the aggregation specification
MaxResults == 3
\* largest configured ceiling enumerated by the configuration specification
MaxCeiling == 4
\* seconds the clock runs while calls are in flight
MaxTime == 2

(* --------------------------- configuration ---------------------------- *)
ALLOWED_GATEWAY == "killer"
ALLOWED_KEY == "rockybest"
ALL_SITES ==
  << "https://deltacloudz.com",
     "https://therapyessentials.coraphysicaltherapy.com",
     "https://bacteriostaticwater.com",
     "https://livelovespa.com",
     "https://divinebovinejerky.com",
     "https://casabelladecor.net",
     "https://lptmedical.com",
     "https://restart.brooksrunning.com",
     "https://safeandsoundhq.com",
     "https://urbanspaceinteriors.com" >>
SITES == SubSeq(ALL_SITES, 1, IF NumSites < Len(ALL_SITES) THEN NumSites ELSE Len(ALL_SITES))
MAX_CONCURRENT == 3
\* SITES[:10]
SITE_SLICE == 10
\* "if i >= 5" (0-based position)
MASK_FROM == 5

(* ------------------------------- text --------------------------------- *)
SEP == "|"
MASK == << "0", "0", "0" >>

Min(a, b) == IF a < b THEN a ELSE b

\* position of the first SEP in s, 0 when there is none
FirstSep(s) ==
  IF \E k \in 1..Len(s) : s[k] = SEP
    THEN CHOOSE k \in 1..Len(s) : s[k] = SEP /\ \A j \in 1..(k - 1) : s[j] # SEP
    ELSE 0

\* str.split("|"): always at least one part, empty parts kept
RECURSIVE split(_)
split(s) ==
  LET k == FirstSep(s)
  IN  IF k = 0 THEN << s >>
      ELSE << SubSeq(s, 1, k - 1) >> \o split(SubSeq(s, k + 1, Len(s)))

\* "|".join(parts)
RECURSIVE join(_)
join(parts) ==
  IF Len(parts) = 0 THEN << >>
  ELSE IF Len(parts) = 1 THEN parts[1]
  ELSE parts[1] \o << SEP >> \o join(Tail(parts))

\* urllib.parse.quote_plus on the characters a cc text is made of
quote_char(c) ==
  IF c = "|" THEN << "%", "7", "C" >>
  ELSE IF c = " " THEN << "+" >>
  ELSE << c >>

RECURSIVE quote_plus(_)
quote_plus(s) ==
  IF Len(s) = 0 THEN << >> ELSE quote_char(Head(s)) \o quote_plus(Tail(s))

(* ------------------------------ parse_cc ------------------------------ *)
\* parse_cc raises ValueError when the text has fewer than 4 parts
parse_cc_ok(cc_raw) == Len(split(cc_raw)) >= 4

\* (pan, mm, yy, cvv): the first four parts, later parts dropped
parse_cc(cc_raw) == SubSeq(split(cc_raw), 1, 4)

(* ------------------------------ planning ------------------------------ *)
\* variant: the threshold compared with > instead of >=
cc_for_site_late(i, cc_raw) ==
  IF i > MASK_FROM
    THEN LET p == parse_cc(cc_raw) IN join(<< p[1], p[2], p[3], MASK >>)
    ELSE cc_raw

\* cc_for_site for 0-based position i
MaskedCc(cc_raw) ==
  LET p == parse_cc(cc_raw) IN join(<< p[1], p[2], p[3], MASK >>)

cc_for_site(i, cc_raw) == IF i >= MASK_FROM THEN MaskedCc(cc_raw) ELSE cc_raw

\* REMOTE_API_TEMPLATE with {site} and {cc} substituted; the site part of the
\* query is kept as the site name, the cc part is percent-encoded
build_url(site, cc) == [site |-> site, cc |-> quote_plus(cc)]

\* the sites the loop enumerates: SITES[:10]
PlannedSites == SubSeq(SITES, 1, Min(Len(SITES), SITE_SLICE))

\* the calls appended to site_tasks, in loop order (position i is index i+1)
plan_requests(cc_raw) ==
  [ k \in 1..Len(PlannedSites) |->
      [ site |-> PlannedSites[k],
        cc   |-> cc_for_site(k - 1, cc_raw),
        url  |-> build_url(PlannedSites[k], cc_for_site(k - 1, cc_raw)) ] ]

(* ------------------------- values of a JSON body ---------------------- *)
\* a value under a key of the parsed body: t is its Python type
\* ("absent" when the key is missing), s its text, n its number
Absent == [t |-> "absent", s |-> << >>, n |-> 0]
JNull == [t |-> "null", s |-> << >>, n |-> 0]
JTrue == [t |-> "true", s |-> << >>, n |-> 0]
JFalse == [t |-> "false", s |-> << >>, n |-> 0]
JStr(s) == [t |-> "str", s |-> s, n |-> 0]
JNum(n) == [t |-> "num", s |-> << >>, n |-> n]
\* the float json.loads makes of the literal NaN
JNaN == [t |-> "nan", s |-> << >>, n |-> 0]

\* what json.loads returned: kind "none" is Python None (also the value kept
\* when json.loads raised), "dict" a mapping, "list" any other JSON value;
\* other tells whether the mapping has keys besides Response, Status, Price
PyNone ==
  [kind |-> "none", Response |-> Absent, Status |-> Absent, Price |-> Absent, other |-> FALSE]
PyList ==
  [kind |-> "list", Response |-> Absent, Status |-> Absent, Price |-> Absent, other |-> FALSE]
PyDict(r, st, p, o) ==
  [kind |-> "dict", Response |-> r, Status |-> st, Price |-> p, other |-> o]

T_CARD_LIVE == << "C", "a", "r", "d", " ", "L", "i", "v", "e" >>
T_DECLINED == << "D", "e", "c", "l", "i", "n", "e", "d" >>
T_GENERIC_ERROR == << "G", "E", "N", "E", "R", "I", "C", "_", "E", "R", "R", "O", "R" >>
T_GATEWAY_ERROR == << "G", "a", "t", "e", "w", "a", "y", " ", "e", "r", "r", "o", "r" >>
T_APPROVED_ERROR == << "A", "p", "p", "r", "o", "v", "e", "d", " ", "e", "r", "r", "o", "r" >>
T_DECLINED_LC == << "d", "e", "c", "l", "i", "n", "e", "d" >>
T_TRUE_LC == << "t", "r", "u", "e" >>
T_FALSE_LC == << "f", "a", "l", "s", "e" >>
T_ABC == << "a", "b", "c" >>
T_20 == << "2", "0" >>

BODY_LIVE == "{\"Response\":\"Card Live\",\"Status\":\"false\",\"Price\":10}"
BODY_STATUS_TRUE == "{\"Response\":\"Declined\",\"Status\":\"true\"}"
BODY_GENERIC == "{\"Response\":\"GENERIC_ERROR\",\"Status\":\"false\"}"
BODY_ERR_TEXT == "{\"Response\":\"Gateway error\",\"Price\":\"abc\"}"
BODY_DECLINED == "{\"Response\":\"Declined\",\"Price\":\"20\"}"
BODY_BOTH == "{\"Response\":\"Approved error\",\"Price\":25}"
BODY_EMPTY_DICT == "{}"
BODY_LIST == "[\"LIVE\"]"
BODY_HTML == "<html>502 Bad Gateway</html>"
BODY_STATUS_ONE == "{\"Status\":1}"
BODY_NULL_FIELDS == "{\"Response\":null,\"Status\":\"declined\",\"Price\":null}"
BODY_OTHER_KEY == "{\"message\":\"SUCCESS\"}"
BODY_NAN_PRICE == "{\"Response\":\"Declined\",\"Price\":NaN}"

Bodies ==
  { BODY_LIVE, BODY_STATUS_TRUE, BODY_GENERIC, BODY_ERR_TEXT, BODY_DECLINED,
    BODY_BOTH, BODY_EMPTY_DICT, BODY_LIST, BODY_HTML, BODY_STATUS_ONE,
    BODY_NULL_FIELDS, BODY_OTHER_KEY }

\* json.loads(raw) inside try/except: None when the text is not JSON
json_loads(raw) ==
  CASE raw = BODY_LIVE -> PyDict(JStr(T_CARD_LIVE), JStr(T_FALSE_LC), JNum(10), FALSE)
    [] raw = BODY_STATUS_TRUE -> PyDict(JStr(T_DECLINED), JStr(T_TRUE_LC), Absent, FALSE)
    [] raw = BODY_GENERIC -> PyDict(JStr(T_GENERIC_ERROR), JStr(T_FALSE_LC), Absent, FALSE)
    [] raw = BODY_ERR_TEXT -> PyDict(JStr(T_GATEWAY_ERROR), Absent, JStr(T_ABC), FALSE)
    [] raw = BODY_DECLINED -> PyDict(JStr(T_DECLINED), Absent, JStr(T_20), FALSE)
    [] raw = BODY_BOTH -> PyDict(JStr(T_APPROVED_ERROR), Absent, JNum(25), FALSE)
    [] raw = BODY_EMPTY_DICT -> PyDict(Absent, Absent, Absent, FALSE)
    [] raw = BODY_LIST -> PyList
    [] raw = BODY_STATUS_ONE -> PyDict(Absent, JNum(1), Absent, FALSE)
    [] raw = BODY_NULL_FIELDS -> PyDict(JNull, JStr(T_DECLINED_LC), JNull, FALSE)
    [] raw = BODY_OTHER_KEY -> PyDict(Absent, Absent, Absent, TRUE)
    [] raw = BODY_NAN_PRICE -> PyDict(JStr(T_DECLINED), Absent, JNaN, FALSE)
    [] OTHER -> PyNone

(* --------------------------- Python on text --------------------------- *)
LOWER == << "a", "b", "c", "d", "e", "f", "g", "h", "i", "j", "k", "l", "m", "n", "o", "p", "q", "r", "s", "t", "u", "v", "w", "x", "y", "z" >>
UPPER == << "A", "B", "C", "D", "E", "F", "G", "H", "I", "J", "K", "L", "M", "N", "O", "P", "Q", "R", "S", "T", "U", "V", "W", "X", "Y", "Z" >>

upper_char(c) ==
  IF \E k \in 1..Len(LOWER) : LOWER[k] = c
    THEN UPPER[CHOOSE k \in 1..Len(LOWER) : LOWER[k] = c]
    ELSE c

\* str.upper()
upper(s) == [k \in 1..Len(s) |-> upper_char(s[k])]

\* "sub in s" on text
contains(sub, s) ==
  \E k \in 0..(Len(s) - Len(sub)) : SubSeq(s, k + 1, k + Len(sub)) = sub

DIGITS == << "0", "1", "2", "3", "4", "5", "6", "7", "8", "9" >>

RECURSIVE digits(_)
digits(n) ==
  IF n < 10 THEN << DIGITS[n + 1] >> ELSE digits(n \div 10) \o << DIGITS[(n % 10) + 1] >>

\* str(value)
py_str(v) ==
  CASE v.t = "str" -> v.s
    [] v.t = "null" -> << "N", "o", "n", "e" >>
    [] v.t = "true" -> << "T", "r", "u", "e" >>
    [] v.t = "false" -> << "F", "a", "l", "s", "e" >>
    [] v.t = "num" -> digits(v.n)
    [] OTHER -> << >>

\* bool(pr): a mapping is truthy when it has at least one key
dict_truthy(pr) ==
  \/ pr.Response.t # "absent"
  \/ pr.Status.t # "absent"
  \/ pr.Price.t # "absent"
  \/ pr.other

(* ------------------------------ fetch_site ---------------------------- *)
\* Optional values: some = FALSE is Python None
NoneInt == [some |-> FALSE, v |-> 0]
SomeInt(v) == [some |-> TRUE, v |-> v]
NoneStr == [some |-> FALSE, v |-> ""]
SomeStr(v) == [some |-> TRUE, v |-> v]

\* how the call session.get(url, timeout=...) / resp.text() ends: with a
\* response (status, body) or with an exception raised by the transport
Response(status, body) ==
  [kind |-> "response", status |-> status, body |-> body, exc |-> ""]
Raised(exc) ==
  [kind |-> "exception", status |-> 0, body |-> "", exc |-> exc]

\* the total timeout of ClientTimeout(total=PER_REQUEST_TIMEOUT) expiring,
\* and a connection failure
EXC_TIMEOUT == "TimeoutError"
EXC_CONNECT == "ClientConnectorError"
Exceptions == { EXC_TIMEOUT, EXC_CONNECT }

\* str(e): asyncio.TimeoutError carries no message
str_exc(exc) ==
  IF exc = EXC_TIMEOUT THEN "" ELSE "Cannot connect to host rockyog.onrender.com:443"

\* variant: "except aiohttp.ClientError", which a timeout is not
caught_client_error(exc) == exc = EXC_CONNECT

\* "except Exception": every transport exception is an Exception
caught(exc) == exc \in Exceptions

\* variant: a body that is no JSON reported as an error
response_result_strict(spec, o) ==
  [ site |-> spec.site, url |-> spec.url, cc |-> spec.cc,
    http_status |-> SomeInt(o.status),
    raw_response |-> SomeStr(o.body),
    parsed_response |-> json_loads(o.body),
    error |-> IF json_loads(o.body) = PyNone THEN SomeStr("invalid JSON") ELSE NoneStr ]

\* the dictionary returned from inside "async with session.get(...)"
response_result(spec, o) ==
  [ site |-> spec.site, url |-> spec.url, cc |-> spec.cc,
    http_status |-> SomeInt(o.status),
    raw_response |-> SomeStr(o.body),
    parsed_response |-> json_loads(o.body),
    error |-> NoneStr ]

\* variant: a failure recorded with a gateway-timeout status
failure_result_504(spec, o) ==
  [ site |-> spec.site, url |-> spec.url, cc |-> spec.cc,
    http_status |-> SomeInt(504),
    raw_response |-> NoneStr,
    parsed_response |-> PyNone,
    error |-> SomeStr(str_exc(o.exc)) ]

\* the dictionary returned from the except branch
failure_result(spec, o) ==
  [ site |-> spec.site, url |-> spec.url, cc |-> spec.cc,
    http_status |-> NoneInt,
    raw_response |-> NoneStr,
    parsed_response |-> PyNone,
    error |-> SomeStr(str_exc(o.exc)) ]

\* what fetch_site returns for the call built from spec when it ends with o
fetch_result(spec, o) ==
  IF o.kind = "response" THEN response_result(spec, o) ELSE failure_result(spec, o)

(* ---------------------------- decide_overall -------------------------- *)
TRUTHY_TEXTS == { << "t", "r", "u", "e" >>, << "1" >>, << "T", "r", "u", "e" >>, << "T", "R", "U", "E" >>, << "o", "k" >>, << "O", "K" >> }

\* status_field in ("true", "1", True, "True", "TRUE", "ok", "OK"); Python
\* compares with ==, so the number 1 equals True
status_truthy(v) ==
  \/ v.t = "str" /\ v.s \in TRUTHY_TEXTS
  \/ v.t = "true"
  \/ v.t = "num" /\ v.n = 1

LIVE_KEYWORDS == { << "L", "I", "V", "E" >>, << "A", "P", "P", "R", "O", "V", "E", "D" >>, << "S", "U", "C", "C", "E", "S", "S" >> }
K_ERROR == << "E", "R", "R", "O", "R" >>

\* str(pr.get("Response", "")).upper()
resp_text(pr) == upper(py_str(pr.Response))

\* float(pr["Price"]) succeeds; on text it needs a number (here: digits)
\* the float that is not a number, among prices counted in whole units
NAN == 0 - 1

float_ok(v) ==
  \/ v.t \in { "num", "true", "false", "nan" }
  \/ v.t = "str" /\ Len(v.s) > 0 /\ \A k \in 1..Len(v.s) : \E d \in 1..10 : DIGITS[d] = v.s[k]

RECURSIVE parse_digits(_)
parse_digits(s) ==
  IF Len(s) = 0 THEN 0
  ELSE 10 * parse_digits(SubSeq(s, 1, Len(s) - 1))
       + ((CHOOSE d \in 1..10 : DIGITS[d] = s[Len(s)]) - 1)

float_of(v) ==
  CASE v.t = "num" -> v.n
    [] v.t = "true" -> 1
    [] v.t = "false" -> 0
    [] v.t = "nan" -> NAN
    [] OTHER -> parse_digits(v.s)

\* variant: any mapping taken as a structured body, the empty one included
structured_any_dict(r) == r.parsed_response.kind = "dict"

\* "pr and isinstance(pr, dict)"
structured(r) == r.parsed_response.kind = "dict" /\ dict_truthy(r.parsed_response)

\* variant: the handler falls back to 0.0: "except Exception: prices.append(0.0)"
fold_step_zero_price(acc, r) ==
  LET pr == r.parsed_response
      txt == resp_text(pr)
  IN  IF structured(r)
        THEN [ any_live |-> \/ acc.any_live
                            \/ status_truthy(pr.Status)
                            \/ \E k \in LIVE_KEYWORDS : contains(k, txt),
               any_error |-> \/ acc.any_error
                             \/ contains(K_ERROR, txt)
                             \/ (pr.Response.t = "str" /\ pr.Response.s = T_GENERIC_ERROR),
               prices |-> IF pr.Price.t \notin { "absent", "null" }
                            THEN Append(acc.prices,
                                        IF float_ok(pr.Price) THEN float_of(pr.Price) ELSE 0)
                            ELSE acc.prices ]
        ELSE [ any_live |-> acc.any_live,
               any_error |-> \/ acc.any_error
                             \/ (r.error.some /\ r.error.v # "")
                             \/ (r.http_status.some /\ r.http_status.v # 0
                                   /\ r.http_status.v >= 400),
               prices |-> acc.prices ]

\* the body of the for loop: acc is (any_live, any_error, prices)
fold_step(acc, r) ==
  LET pr == r.parsed_response
      txt == resp_text(pr)
  IN  IF structured(r)
        THEN [ any_live |-> \/ acc.any_live
                            \/ status_truthy(pr.Status)
                            \/ \E k \in LIVE_KEYWORDS : contains(k, txt),
               any_error |-> \/ acc.any_error
                             \/ contains(K_ERROR, txt)
                             \/ (pr.Response.t = "str" /\ pr.Response.s = T_GENERIC_ERROR),
               prices |-> IF pr.Price.t \notin { "absent", "null" } /\ float_ok(pr.Price)
                            THEN Append(acc.prices, float_of(pr.Price))
                            ELSE acc.prices ]
        ELSE [ any_live |-> acc.any_live,
               any_error |-> \/ acc.any_error
                             \/ (r.error.some /\ r.error.v # "")
                             \/ (r.http_status.some /\ r.http_status.v # 0
                                   /\ r.http_status.v >= 400),
               prices |-> acc.prices ]

RECURSIVE fold(_, _)
fold(acc, results) ==
  IF Len(results) = 0 THEN acc ELSE fold(fold_step(acc, Head(results)), Tail(results))

RECURSIVE sum(_)
sum(ps) == IF Len(ps) = 0 THEN 0 ELSE Head(ps) + sum(Tail(ps))

\* round(x, 2) of the quotient a / b, in hundredths, ties to even
round2(a, b) ==
  LET q == (100 * a) \div b
      r == (100 * a) % b
  IN  IF 2 * r > b \/ (2 * r = b /\ q % 2 = 1) THEN q + 1 ELSE q

\* round(sum(prices) / len(prices), 2): any NaN among the terms makes the
\* sum, the quotient and the rounded mean NaN
mean(ps) ==
  IF \E k \in 1..Len(ps) : ps[k] = NAN THEN NAN ELSE round2(sum(ps), Len(ps))

\* variant: the error branch tested before the live branch
verdict_error_first(acc) ==
  [ Response |-> IF acc.any_error THEN "GENERIC_ERROR"
                 ELSE IF acc.any_live THEN "LIVE" ELSE "UNKNOWN",
    Status |-> IF acc.any_error THEN "false"
               ELSE IF acc.any_live THEN "true" ELSE "unknown",
    Price |-> IF Len(acc.prices) > 0
                THEN SomeInt(mean(acc.prices))
                ELSE NoneInt ]

\* the verdict: Price is None or the mean in hundredths
verdict(acc) ==
  [ Response |-> IF acc.any_live THEN "LIVE"
                 ELSE IF acc.any_error THEN "GENERIC_ERROR" ELSE "UNKNOWN",
    Status |-> IF acc.any_live THEN "true"
               ELSE IF acc.any_error THEN "false" ELSE "unknown",
    Price |-> IF Len(acc.prices) > 0
                THEN SomeInt(mean(acc.prices))
                ELSE NoneInt ]

\* variant: no handler around the coercion
price_uncaught == FALSE

\* "except Exception: pass" around float(pr["Price"]): the ValueError or
\* TypeError of a value that is no number is an Exception
price_caught == TRUE

\* float(pr["Price"]) raises in result r and the exception leaves the loop
price_raises(r) ==
  /\ structured(r)
  /\ r.parsed_response.Price.t \notin { "absent", "null" }
  /\ ~float_ok(r.parsed_response.Price)
  /\ ~price_caught

\* what the caller sees when decide_overall raises instead of returning
RaisedVerdict == [Response |-> "raised", Status |-> "raised", Price |-> NoneInt]

decide_overall(results) ==
  IF \E k \in 1..Len(results) : price_raises(results[k])
    THEN RaisedVerdict
    ELSE verdict(fold([any_live |-> FALSE, any_error |-> FALSE, prices |-> << >>], results))

(* ------------------------------- state -------------------------------- *)
VARIABLES
  params,         \* query parameters of the request: gateway, key, cc
  maxc,           \* the configured MAX_CONCURRENT
  gw_pc,          \* position of the gateway coroutine
  http_code,      \* status code of the gateway's answer, 0 while none
  site_tasks,     \* the calls built by the loop, in loop order
  pc,             \* position of each fetch_site task
  sem_value,      \* asyncio.Semaphore: free permits
  sem_waiters,    \* asyncio.Semaphore: tasks blocked in acquire, FIFO
  task_result,    \* result of each finished task (the task's future)
  final,          \* the payload handed to JSONResponse
  inverted,       \* history: some task finished before an earlier-listed one
  agg_in,         \* aggregation specification: the list given to decide_overall
  agg_out,        \* aggregation specification: its verdict
  call_end,       \* history: how the call of each task ended
  acquires,       \* history: permits each task has acquired
  releases,       \* history: permits each task has released
  now,            \* time.perf_counter(), in seconds
  start,          \* fetch_site's local "start" of each task
  acquired_at,    \* history: the clock when each task got its permit
  duration_ms     \* the "duration_ms" entry of each task's result

\* the history of the calls and permits, and the clock with what is read off it
hist == << call_end, acquires, releases >>
clock == << now, start, acquired_at, duration_ms >>

vars ==
  << params, maxc, gw_pc, http_code, site_tasks, pc, sem_value, sem_waiters,
     task_result, final, inverted, agg_in, agg_out, hist, clock >>

NoOutcome == [kind |-> "none", status |-> 0, body |-> "", exc |-> ""]

NoResult ==
  [ site |-> "", url |-> [site |-> "", cc |-> << >>], cc |-> << >>,
    http_status |-> NoneInt, raw_response |-> NoneStr,
    parsed_response |-> PyNone, error |-> NoneStr ]

NoVerdict == [Response |-> "", Status |-> "", Price |-> NoneInt]

NoFinal ==
  [ Gateway |-> "", Price |-> NoneInt, Response |-> "", Status |-> "",
    cc |-> << >>, per_site |-> << >> ]

Tasks == 1..Len(site_tasks)

(* ------------------------------- inputs ------------------------------- *)
CC_FOUR == << "4", "1", "|", "1", "2", "|", "2", "5", "|", "7", "7", "7" >>
CC_FIVE == << "4", "1", "|", "1", "2", "|", "2", "5", "|", "7", "7", "7", "|", "9" >>
CC_SHORT == << "4", "1", "|", "1", "2", "|", "2", "5" >>
CcSamples == { << >>, CC_SHORT, CC_FOUR, CC_FIVE }

GatewayTags == { "", ALLOWED_GATEWAY, "other" }
Keys == { "", ALLOWED_KEY, "wrong" }

\* the ways one endpoint call of the fan-out can end
FanOutcomes ==
  { Response(200, BODY_LIVE), Response(502, BODY_HTML),
    Raised(EXC_TIMEOUT), Raised(EXC_CONNECT) }

(* -------------------------------- Init -------------------------------- *)
InitRest ==
  /\ gw_pc = "request"
  /\ http_code = 0
  /\ site_tasks = << >>
  /\ pc = << >>
  /\ sem_value = 0
  /\ sem_waiters = << >>
  /\ task_result = << >>
  /\ final = NoFinal
  /\ inverted = FALSE
  /\ agg_in = << >>
  /\ agg_out = NoVerdict
  /\ call_end = << >>
  /\ acquires = << >>
  /\ releases = << >>
  /\ now = 0
  /\ start = << >>
  /\ acquired_at = << >>
  /\ duration_ms = << >>

Init ==
  /\ params \in [gateway : GatewayTags, key : Keys, cc : CcSamples]
  /\ maxc = MAX_CONCURRENT
  /\ InitRest

(* ------------------------------- gateway ------------------------------ *)
\* "if not gateway or not key or not cc_raw": HTTPException 400
GatewayMissing ==
  /\ gw_pc = "request"
  /\ params.gateway = "" \/ params.key = "" \/ params.cc = << >>
  /\ gw_pc' = "rejected"
  /\ http_code' = 400
  /\ UNCHANGED << params, maxc, site_tasks, pc, sem_value, sem_waiters,
                  task_result, final, inverted, agg_in, agg_out, hist, clock >>

ParamsPresent == params.gateway # "" /\ params.key # "" /\ params.cc # << >>

Authorized == params.gateway = ALLOWED_GATEWAY /\ params.key = ALLOWED_KEY

\* "if gateway != ALLOWED_GATEWAY or key != ALLOWED_KEY": HTTPException 403
GatewayUnauthorized ==
  /\ gw_pc = "request"
  /\ ParamsPresent
  /\ ~Authorized
  /\ gw_pc' = "rejected"
  /\ http_code' = 403
  /\ UNCHANGED << params, maxc, site_tasks, pc, sem_value, sem_waiters,
                  task_result, final, inverted, agg_in, agg_out, hist, clock >>

\* parse_cc raised ValueError: HTTPException 400
GatewayBadCc ==
  /\ gw_pc = "request"
  /\ ParamsPresent
  /\ Authorized
  /\ ~parse_cc_ok(params.cc)
  /\ gw_pc' = "rejected"
  /\ http_code' = 400
  /\ UNCHANGED << params, maxc, site_tasks, pc, sem_value, sem_waiters,
                  task_result, final, inverted, agg_in, agg_out, hist, clock >>

\* asyncio.Semaphore(value) raises ValueError for value < 0; nothing catches it
GatewaySemError ==
  /\ gw_pc = "request"
  /\ ParamsPresent
  /\ Authorized
  /\ parse_cc_ok(params.cc)
  /\ maxc < 0
  /\ gw_pc' = "crashed"
  /\ http_code' = 500
  /\ UNCHANGED << params, maxc, site_tasks, pc, sem_value, sem_waiters,
                  task_result, final, inverted, agg_in, agg_out, hist, clock >>

\* time.perf_counter()
perf_counter == now

\* round((time.perf_counter() - start) * 1000, 2)
elapsed_ms(t0) == 1000 * (perf_counter - t0)

\* the semaphore the tasks share: asyncio.Semaphore(MAX_CONCURRENT)
new_semaphore(value) == value

\* from the checks up to "await asyncio.gather(*site_tasks)": the semaphore
\* is created, one call is built per site and the tasks are handed to gather
GatewayStart ==
  /\ gw_pc = "request"
  /\ ParamsPresent
  /\ Authorized
  /\ parse_cc_ok(params.cc)
  /\ maxc >= 0
  /\ sem_value' = new_semaphore(maxc)
  /\ sem_waiters' = << >>
  /\ site_tasks' = plan_requests(params.cc)
  /\ pc' = [k \in 1..Len(plan_requests(params.cc)) |-> "created"]
  /\ task_result' = [k \in 1..Len(plan_requests(params.cc)) |-> NoResult]
  /\ gw_pc' = "gathering"
  /\ call_end' = [k \in 1..Len(plan_requests(params.cc)) |-> NoOutcome]
  /\ acquires' = [k \in 1..Len(plan_requests(params.cc)) |-> 0]
  /\ releases' = [k \in 1..Len(plan_requests(params.cc)) |-> 0]
  /\ start' = [k \in 1..Len(plan_requests(params.cc)) |-> 0]
  /\ acquired_at' = [k \in 1..Len(plan_requests(params.cc)) |-> 0]
  /\ duration_ms' = [k \in 1..Len(plan_requests(params.cc)) |-> 0]
  /\ UNCHANGED << params, maxc, http_code, final, inverted, agg_in, agg_out, now >>

(* ------------------------------ fetch_site ---------------------------- *)
\* variant: the permit count is tested one too low
locked_off_by_one == sem_value < 0 \/ Len(sem_waiters) > 0

\* Semaphore.locked(): no free permit, or somebody already waits
locked == sem_value = 0 \/ Len(sem_waiters) > 0

\* the event loop runs the first step of the tasks in the order gather
\* scheduled them
FirstInLine(i) == \A j \in Tasks : j < i => pc[j] # "created"

\* first step of task i, permit free: "async with sem" is entered and the
\* call session.get(url, timeout=timeout) is issued
TaskAcquire(i) ==
  /\ gw_pc = "gathering"
  /\ pc[i] = "created"
  /\ FirstInLine(i)
  /\ ~locked
  /\ start' = [start EXCEPT ![i] = perf_counter]
  /\ sem_value' = sem_value - 1
  /\ pc' = [pc EXCEPT ![i] = "calling"]
  /\ acquires' = [acquires EXCEPT ![i] = @ + 1]
  /\ acquired_at' = [acquired_at EXCEPT ![i] = now]
  /\ UNCHANGED << params, maxc, gw_pc, http_code, site_tasks, sem_waiters,
                  task_result, final, inverted, agg_in, agg_out, call_end,
                  releases, now, duration_ms >>

\* first step of task i, no permit free: the task blocks in sem.acquire()
TaskWait(i) ==
  /\ gw_pc = "gathering"
  /\ pc[i] = "created"
  /\ FirstInLine(i)
  /\ locked
  /\ start' = [start EXCEPT ![i] = perf_counter]
  /\ sem_waiters' = Append(sem_waiters, i)
  /\ pc' = [pc EXCEPT ![i] = "waiting"]
  /\ UNCHANGED << params, maxc, gw_pc, http_code, site_tasks, sem_value,
                  task_result, final, inverted, agg_in, agg_out, hist, now,
                  acquired_at, duration_ms >>

\* variant: results appended to a shared list as the tasks finish
set_result_append(tr, i, r) ==
  [tr EXCEPT ![CHOOSE k \in 1..Len(tr) :
                  tr[k] = NoResult /\ \A j \in 1..(k - 1) : tr[j] # NoResult] = r]

\* the task's future: the returned dictionary is its result
set_result(tr, i, r) == [tr EXCEPT ![i] = r]

\* where task i is once its call has ended with outcome o: returned, or the
\* exception left fetch_site
after_call(o) ==
  IF o.kind = "response" \/ caught(o.exc) THEN "done" ELSE "raised"

\* variant: the permit of a finished call is dropped when nobody waits
released_value_leak(v) == v

\* Semaphore.release(): the permit goes to the longest-waiting task if there
\* is one, else back to the counter
released_value(v) == IF Len(sem_waiters) > 0 THEN v ELSE v + 1

\* variant: release() that wakes nobody
released_pc_no_wake(p, i, o) == [p EXCEPT ![i] = after_call(o)]

\* Semaphore.release() at the exit of "async with sem": the permit goes to the
\* longest-waiting task, which issues its call, or back to the semaphore
released_pc(p, i, o) ==
  IF Len(sem_waiters) > 0
    THEN [p EXCEPT ![i] = after_call(o), ![Head(sem_waiters)] = "calling"]
    ELSE [p EXCEPT ![i] = after_call(o)]

\* the call of task i ends with outcome o: the result dictionary is built
\* (response branch or except branch) and the permit is released. Network
\* events are polled only after the loop has run the first step of every
\* task gather scheduled, so no call ends while a task is still "created"
TaskFinish(i, o) ==
  /\ gw_pc = "gathering"
  /\ pc[i] = "calling"
  /\ \A j \in Tasks : pc[j] # "created"
  /\ task_result' =
       IF after_call(o) = "done"
         THEN set_result(task_result, i, fetch_result(site_tasks[i], o))
         ELSE task_result
  /\ pc' = released_pc(pc, i, o)
  /\ sem_waiters' = IF Len(sem_waiters) > 0 THEN Tail(sem_waiters) ELSE sem_waiters
  /\ sem_value' = released_value(sem_value)
  /\ inverted' = (inverted \/ \E j \in Tasks : j < i /\ pc[j] \notin { "done", "raised" })
  /\ duration_ms' = [duration_ms EXCEPT ![i] = elapsed_ms(start[i])]
  /\ call_end' = [call_end EXCEPT ![i] = o]
  /\ releases' = [releases EXCEPT ![i] = @ + 1]
  /\ acquires' = IF Len(sem_waiters) > 0
                   THEN [acquires EXCEPT ![Head(sem_waiters)] = @ + 1]
                   ELSE acquires
  /\ acquired_at' = IF Len(sem_waiters) > 0
                      THEN [acquired_at EXCEPT ![Head(sem_waiters)] = now]
                      ELSE acquired_at
  /\ UNCHANGED << params, maxc, gw_pc, http_code, site_tasks, final, agg_in,
                  agg_out, now, start >>

(* -------------------------------- join -------------------------------- *)
\* asyncio.gather: the results of the children, in the order of its arguments
gather(tr) == [k \in 1..Len(tr) |-> tr[k]]

\* variant: the join wakes on the first finished child
FirstDone == \E i \in Tasks : pc[i] = "done"

AllDone == \A i \in Tasks : pc[i] = "done"
SomeRaised == \E i \in Tasks : pc[i] = "raised"

\* the payload of the answer
payload(results, overall) ==
  [ Gateway |-> "Authorize.net",
    Price |-> overall.Price,
    Response |-> overall.Response,
    Status |-> overall.Status,
    cc |-> params.cc,
    per_site |-> results ]

\* JSONResponse(content=final) renders with json.dumps(..., allow_nan=False),
\* which raises ValueError on a float that is not a number anywhere in the
\* content: the overall Price or a Price inside a parsed body
json_compliant(content) ==
  /\ ~(content.Price.some /\ content.Price.v = NAN)
  /\ \A k \in 1..Len(content.per_site) :
       content.per_site[k].parsed_response.kind = "dict"
         => content.per_site[k].parsed_response.Price.t # "nan"

\* gather returns (or re-raises the first exception of a child); the verdict
\* is computed, the payload assembled and rendered
GatewayJoin ==
  /\ gw_pc = "gathering"
  /\ AllDone \/ SomeRaised
  /\ IF SomeRaised
       THEN /\ gw_pc' = "crashed"
            /\ http_code' = 500
            /\ final' = final
       ELSE LET results == gather(task_result)
                content == payload(results, decide_overall(results))
            IN  IF json_compliant(content)
                  THEN /\ gw_pc' = "responded"
                       /\ http_code' = 200
                       /\ final' = content
                  ELSE /\ gw_pc' = "crashed"
                       /\ http_code' = 500
                       /\ final' = final
  /\ UNCHANGED << params, maxc, site_tasks, pc, sem_value, sem_waiters,
                  task_result, inverted, agg_in, agg_out, hist, clock >>

(* ---------------------------- specification --------------------------- *)
Next ==
  \/ GatewayMissing
  \/ GatewayUnauthorized
  \/ GatewayBadCc
  \/ GatewayStart
  \/ \E i \in Tasks : TaskAcquire(i)
  \/ \E i \in Tasks : TaskWait(i)
  \/ \E i \in Tasks : \E o \in FanOutcomes : TaskFinish(i, o)
  \/ GatewayJoin

Spec == Init /\ [][Next]_vars

(* ------------- the gateway under any configured ceiling --------------- *)
\* MAX_CONCURRENT is a setting of the deployment: every value from -1 up
ConfiguredCeilings == (0 - 1)..MaxCeiling

InitCfg ==
  /\ params \in [gateway : GatewayTags, key : Keys, cc : { << >>, CC_SHORT, CC_FOUR }]
  /\ maxc \in ConfiguredCeilings
  /\ InitRest

NextCfg ==
  \/ GatewayMissing
  \/ GatewayUnauthorized
  \/ GatewayBadCc
  \/ GatewaySemError
  \/ GatewayStart
  \/ \E i \in Tasks : TaskAcquire(i)
  \/ \E i \in Tasks : TaskWait(i)
  \/ \E i \in Tasks : \E o \in FanOutcomes : TaskFinish(i, o)
  \/ GatewayJoin

SpecCfg == InitCfg /\ [][NextCfg]_vars

(* ----------- an accepted request over every kind of outcome ---------- *)
\* a response with a structured body, one with a body that is no JSON, two
\* with a structured body whose fields are null or of the wrong type, and a
\* transport failure
MixOutcomes ==
  { Response(200, BODY_LIVE), Response(502, BODY_HTML),
    Response(200, BODY_NULL_FIELDS), Response(200, BODY_NAN_PRICE),
    Raised(EXC_TIMEOUT) }

InitMix ==
  /\ params = [gateway |-> ALLOWED_GATEWAY, key |-> ALLOWED_KEY, cc |-> CC_FOUR]
  /\ maxc = MAX_CONCURRENT
  /\ InitRest

NextMix ==
  \/ GatewayStart
  \/ \E i \in Tasks : TaskAcquire(i)
  \/ \E i \in Tasks : TaskWait(i)
  \/ \E i \in Tasks : \E o \in MixOutcomes : TaskFinish(i, o)
  \/ GatewayJoin

SpecMix == InitMix /\ [][NextMix]_vars

(* ------------------------- the fan-out in time ------------------------ *)
\* a second passes while calls are in flight; the first steps of the tasks
\* gather scheduled run back to back before that
Tick ==
  /\ gw_pc = "gathering"
  /\ \A j \in Tasks : pc[j] # "created"
  /\ \E j \in Tasks : pc[j] = "calling"
  /\ now < MaxTime
  /\ now' = now + 1
  /\ UNCHANGED << params, maxc, gw_pc, http_code, site_tasks, pc, sem_value,
                  sem_waiters, task_result, final, inverted, agg_in, agg_out,
                  hist, start, acquired_at, duration_ms >>

TimeOutcomes == { Response(200, BODY_LIVE), Raised(EXC_CONNECT) }

NextTime ==
  \/ GatewayStart
  \/ \E i \in Tasks : TaskAcquire(i)
  \/ \E i \in Tasks : TaskWait(i)
  \/ \E i \in Tasks : \E o \in TimeOutcomes : TaskFinish(i, o)
  \/ Tick
  \/ GatewayJoin

SpecTime == InitMix /\ [][NextTime]_vars

(* ----------------- the fan-out under a fair event loop ---------------- *)
LiveCeilings == 1..MaxCeiling
LiveOutcomes == { Response(200, BODY_LIVE), Raised(EXC_TIMEOUT) }

InitLive ==
  /\ params = [gateway |-> ALLOWED_GATEWAY, key |-> ALLOWED_KEY, cc |-> CC_FOUR]
  /\ maxc \in LiveCeilings
  /\ InitRest

TaskStep(i) == TaskAcquire(i) \/ TaskWait(i)
CallEnds(i) == \E o \in LiveOutcomes : TaskFinish(i, o)

NextLive ==
  \/ GatewayStart
  \/ \E i \in Tasks : TaskStep(i)
  \/ \E i \in Tasks : CallEnds(i)
  \/ GatewayJoin

\* the event loop runs every task that is ready, and every call in flight
\* ends: with a response, or at the latest when ClientTimeout(total=15)
\* expires. No task step undoes another, so weak fairness of the task steps
\* together is all that is assumed
FairLoop == WF_vars(\E i \in Tasks : TaskStep(i) \/ CallEnds(i))

SpecLive == InitLive /\ [][NextLive]_vars /\ FairLoop

(* ------------------- request planning on any cc text ------------------ *)
CcAlphabet == { "4", " ", "|" }
CcTexts == UNION { [1..n -> CcAlphabet] : n \in 0..MaxCcLen }

InitPlan ==
  /\ params \in [gateway : { ALLOWED_GATEWAY }, key : { ALLOWED_KEY, "wrong" }, cc : CcTexts]
  /\ maxc = MAX_CONCURRENT
  /\ InitRest

NextPlan ==
  \/ GatewayMissing
  \/ GatewayUnauthorized
  \/ GatewayBadCc
  \/ GatewayStart

SpecPlan == InitPlan /\ [][NextPlan]_vars

(* ---------------------- decide_overall on any list -------------------- *)
\* the ways a call can end, over every body of the table
AggOutcomes ==
  { Response(200, b) : b \in Bodies }
    \cup { Response(500, b) : b \in { BODY_HTML, BODY_EMPTY_DICT, BODY_LIST, BODY_DECLINED } }
    \cup { Raised(e) : e \in Exceptions }

\* the result lists fetch_site can hand to decide_overall, up to MaxResults long
AggSpec(k) == plan_requests(CC_FOUR)[((k - 1) % Len(PlannedSites)) + 1]
AggLists ==
  { [k \in 1..Len(os) |-> fetch_result(AggSpec(k), os[k])] :
      os \in UNION { [1..n -> AggOutcomes] : n \in 0..MaxResults } }

InitAgg ==
  /\ params = [gateway |-> ALLOWED_GATEWAY, key |-> ALLOWED_KEY, cc |-> CC_FOUR]
  /\ maxc = MAX_CONCURRENT
  /\ gw_pc = "aggregating"
  /\ http_code = 0
  /\ site_tasks = << >>
  /\ pc = << >>
  /\ sem_value = 0
  /\ sem_waiters = << >>
  /\ task_result = << >>
  /\ final = NoFinal
  /\ inverted = FALSE
  /\ agg_in \in AggLists
  /\ agg_out = NoVerdict
  /\ call_end = << >>
  /\ acquires = << >>
  /\ releases = << >>
  /\ now = 0
  /\ start = << >>
  /\ acquired_at = << >>
  /\ duration_ms = << >>

\* overall = decide_overall(results)
Aggregate ==
  /\ gw_pc = "aggregating"
  /\ agg_out = NoVerdict
  /\ agg_out' = decide_overall(agg_in)
  /\ UNCHANGED << params, maxc, gw_pc, http_code, site_tasks, pc, sem_value,
                  sem_waiters, task_result, final, inverted, agg_in, hist, clock >>

SpecAgg == InitAgg /\ [][Aggregate]_vars

(* ============================== claims ================================ *)
\* tasks holding a permit: their network call is in flight
InFlight == { i \in Tasks : pc[i] = "calling" }
Waiting == { i \in Tasks : pc[i] = "waiting" }

\* the results fetch_site can return for the call built for position k
OwnResults(k) == { fetch_result(site_tasks[k], o) : o \in FanOutcomes }

\* C1: when the gateway answers, per_site holds exactly one result per planned
\* site (at most 10), and the result at position k is a result of the call
\* built for site k, whatever the order in which the tasks finished.
C1_ResultsInSubmissionOrder ==
  gw_pc = "responded" =>
    /\ Len(final.per_site) = Len(PlannedSites)
    /\ Len(final.per_site) <= SITE_SLICE
    /\ \A k \in 1..Len(final.per_site) :
         /\ final.per_site[k].site = PlannedSites[k]
         /\ final.per_site[k] \in OwnResults(k)

\* C1 witness: an answer given after some task finished before an earlier one
C1_Witness ==
  /\ gw_pc = "responded"
  /\ inverted
  /\ Len(final.per_site) = NumSites

\* C2: under a ceiling of at least 1, the tasks whose call is in flight never
\* outnumber the ceiling.
C2_InFlightAtMostCeiling ==
  maxc >= 1 => Cardinality(InFlight) <= maxc

\* C2 witness: the ceiling is reached while other tasks wait for a permit
C2_Witness ==
  /\ maxc >= 1
  /\ Cardinality(InFlight) = maxc
  /\ Waiting # { }

\* a step in which the call of task j ends with a transport exception
FailureStep(j) ==
  /\ j \in Tasks
  /\ j \in DOMAIN pc'
  /\ pc[j] = "calling"
  /\ pc'[j] # "calling"
  /\ (pc'[j] = "raised" \/ task_result'[j].error.some)

\* C3: a transport failure of one task becomes that task's own error result;
\* the step cancels no sibling, changes no sibling's result, and no exception
\* ever leaves a task or the join.
C3_FailureIsolated ==
  [][ /\ \A i \in DOMAIN pc' : pc'[i] # "raised"
      /\ gw_pc' # "crashed"
      /\ \A j \in Tasks :
           FailureStep(j) =>
             /\ pc'[j] = "done"
             /\ task_result'[j] \in
                  { failure_result(site_tasks[j], Raised(e)) : e \in Exceptions }
             /\ gw_pc' = gw_pc
             /\ \A i \in Tasks \ { j } :
                  /\ task_result'[i] = task_result[i]
                  /\ pc[i] \in { "calling", "done" } => pc'[i] = pc[i]
                  /\ pc'[i] \in { "waiting", "calling", "done" } ]_vars

\* C3 witness: an answer in which one call failed and a sibling got a response
C3_Witness ==
  /\ gw_pc = "responded"
  /\ \E j, i \in 1..Len(final.per_site) :
       /\ final.per_site[j].error.some
       /\ ~final.per_site[i].error.some
       /\ final.per_site[i].http_status.some

\* a step in which the call of task j ends by the per-call timeout
TimeoutStep(j) ==
  /\ j \in Tasks
  /\ j \in DOMAIN pc'
  /\ pc[j] = "calling"
  /\ pc'[j] # "calling"
  /\ (pc'[j] = "raised"
        \/ task_result'[j] = fetch_result(site_tasks[j], Raised(EXC_TIMEOUT)))

\* C4 as claimed: a call that times out delays no other task, not even one
\* waiting for a permit: the step in which a call times out moves no other
\* task (no task's start was held back until that timeout).
C4_TimeoutDelaysNobody ==
  [][ \A j \in Tasks :
        TimeoutStep(j) => \A i \in Tasks \ { j } : pc'[i] = pc[i] ]_vars

\* C4 as amended: a call that times out yields an error result without a
\* status, raw body or parsed body, fails no other task and leaves the calls
\* in flight and the stored results alone; the only task it moves is the
\* longest-waiting one, which had to wait for the permit the slow call held.
C4_TimeoutFailsNobody ==
  [][ \A j \in Tasks :
        TimeoutStep(j) =>
          /\ pc'[j] = "done"
          /\ task_result'[j].error.some
          /\ ~task_result'[j].http_status.some
          /\ ~task_result'[j].raw_response.some
          /\ task_result'[j].parsed_response = PyNone
          /\ \A i \in Tasks \ { j } :
               /\ task_result'[i] = task_result[i]
               /\ \/ pc'[i] = pc[i]
                  \/ /\ pc[i] = "waiting"
                     /\ i = Head(sem_waiters)
                     /\ pc'[i] = "calling" ]_vars

\* C4 witness: a task has timed out while a call is in flight and a task waits
C4_Witness ==
  /\ \E j \in Tasks :
       /\ pc[j] = "done"
       /\ task_result[j] = fetch_result(site_tasks[j], Raised(EXC_TIMEOUT))
  /\ InFlight # { }
  /\ Waiting # { }

\* C5: the verdict and the payload exist only once every submitted task has
\* returned its result, and they are computed over all of those results.
C5_JoinBarrier ==
  (final # NoFinal \/ gw_pc = "responded") =>
    /\ \A i \in Tasks : pc[i] = "done" /\ task_result[i] # NoResult
    /\ Len(final.per_site) = Len(site_tasks)
    /\ \A i \in Tasks : final.per_site[i] = task_result[i]
    /\ final.Response = decide_overall(final.per_site).Response
    /\ final.Status = decide_overall(final.per_site).Status

\* C5 witness: an answer for more tasks than there are permits
C5_Witness ==
  /\ gw_pc = "responded"
  /\ final # NoFinal
  /\ Len(final.per_site) > maxc
  /\ sem_value = maxc

\* permits of the semaphore: free ones plus those held by calls in flight
Ceiling == sem_value + Cardinality(InFlight)

\* C6 as claimed: whatever ceiling is configured, the fan-out runs under a
\* ceiling between 1 and the number of calls, and the request is not aborted.
C6_CeilingClamped ==
  /\ gw_pc # "crashed"
  /\ gw_pc \in { "gathering", "responded" } =>
       /\ Ceiling >= 1
       /\ Ceiling <= Len(site_tasks)

\* a result with a key-value body
HasBody(r) == r.parsed_response.kind = "dict" /\ dict_truthy(r.parsed_response)

\* C7's live signal: a structured body whose Response text holds LIVE,
\* APPROVED or SUCCESS in any case, or whose Status is a truthy token
LiveSignal(r) ==
  /\ HasBody(r)
  /\ \/ \E k \in LIVE_KEYWORDS : contains(k, upper(py_str(r.parsed_response.Response)))
     \/ status_truthy(r.parsed_response.Status)

\* the error signal of the aggregation policy: a structured body whose
\* Response text holds ERROR or is the GENERIC_ERROR sentinel; without a
\* structured body, an error field that is set or an HTTP status >= 400
ErrorSignal(r) ==
  IF HasBody(r)
    THEN \/ contains(K_ERROR, upper(py_str(r.parsed_response.Response)))
         \/ r.parsed_response.Response = JStr(T_GENERIC_ERROR)
    ELSE \/ r.error.some
         \/ (r.http_status.some /\ r.http_status.v >= 400)

AnyLive(rs) == \E k \in 1..Len(rs) : LiveSignal(rs[k])
AnyError(rs) == \E k \in 1..Len(rs) : ErrorSignal(rs[k])
Aggregated == agg_out # NoVerdict

\* C7: a list with at least one live signal is judged LIVE with Status "true",
\* wherever the signal stands and however many error signals surround it.
C7_LiveWins ==
  (Aggregated /\ AnyLive(agg_in)) =>
    (agg_out.Response = "LIVE" /\ agg_out.Status = "true")

\* C7 witness: the only live signal is last, after results with error signals
C7_Witness ==
  /\ Aggregated
  /\ Len(agg_in) = MaxResults
  /\ LiveSignal(agg_in[Len(agg_in)])
  /\ \A k \in 1..(Len(agg_in) - 1) : ErrorSignal(agg_in[k]) /\ ~LiveSignal(agg_in[k])

\* C8 as claimed: a list with no live signal and at least one error signal is
\* judged GENERIC_ERROR with Status "false".
C8_ErrorWithoutLive ==
  (Aggregated /\ ~AnyLive(agg_in) /\ AnyError(agg_in)) =>
    (agg_out.Response = "GENERIC_ERROR" /\ agg_out.Status = "false")

\* C9 as claimed: a list is judged UNKNOWN with Status "unknown" exactly when
\* it has neither a live nor an error signal (the empty list included).
C9_UnknownOnlyWithoutSignals ==
  Aggregated =>
    ((~AnyLive(agg_in) /\ ~AnyError(agg_in))
       <=> (agg_out.Response = "UNKNOWN" /\ agg_out.Status = "unknown"))

\* what the endpoint reads back from the query: urllib's unquote_plus
RECURSIVE unquote_plus(_)
unquote_plus(q) ==
  IF Len(q) = 0 THEN << >>
  ELSE IF Head(q) = "+" THEN << " " >> \o unquote_plus(Tail(q))
  ELSE IF Len(q) >= 3 /\ SubSeq(q, 1, 3) = << "%", "7", "C" >>
    THEN << "|" >> \o unquote_plus(SubSeq(q, 4, Len(q)))
  ELSE << Head(q) >> \o unquote_plus(Tail(q))

\* C10: the calls are planned in the order of SITES; positions 0..4 carry the
\* cc text as received, positions 5 and up carry its first three fields
\* followed by "000"; the URL carries that same text percent-encoded.
C10_PlanByPosition ==
  gw_pc = "gathering" =>
    /\ Len(site_tasks) = Len(PlannedSites)
    /\ \A k \in 1..Len(site_tasks) :
         /\ site_tasks[k].site = PlannedSites[k]
         /\ site_tasks[k].url.site = PlannedSites[k]
         /\ unquote_plus(site_tasks[k].url.cc) = site_tasks[k].cc
         /\ (k - 1 <= 4) => site_tasks[k].cc = params.cc
         /\ (k - 1 >= 5) =>
              /\ Len(split(site_tasks[k].cc)) = 4
              /\ \A f \in 1..3 : split(site_tasks[k].cc)[f] = split(params.cc)[f]
              /\ split(site_tasks[k].cc)[4] = << "0", "0", "0" >>

\* C10 witness: a planned fan-out for a record of four non-empty fields whose
\* sixth call carries a text different from the one received
C10_Witness ==
  /\ gw_pc = "gathering"
  /\ Len(split(params.cc)) = 4
  /\ \A f \in 1..4 : Len(split(params.cc)[f]) > 0
  /\ Len(site_tasks) >= 6
  /\ site_tasks[6].cc # params.cc
  /\ site_tasks[5].cc = params.cc

VERDICT_LABELS == { "LIVE", "GENERIC_ERROR", "UNKNOWN" }

\* C11 as claimed: once the record is accepted, whatever mix of structured, unstructured
\* and malformed bodies and transport failures the calls end with, no task
\* and no join raises, the verdict over the finished tasks is always defined,
\* and the answer is a 200 payload with one of the three verdicts computed
\* over all per-site results.
C11_AlwaysBestEffortPayload ==
  /\ gw_pc \in { "request", "gathering", "responded" }
  /\ \A i \in Tasks : pc[i] # "raised"
  /\ (gw_pc = "gathering" /\ AllDone) =>
       decide_overall(gather(task_result)).Response \in VERDICT_LABELS
  /\ gw_pc = "responded" =>
       /\ http_code = 200
       /\ Len(final.per_site) = Len(PlannedSites)
       /\ \A k \in 1..Len(final.per_site) :
            final.per_site[k] \in { fetch_result(site_tasks[k], o) : o \in MixOutcomes }
       /\ final.Response \in VERDICT_LABELS
       /\ final.Response = decide_overall(final.per_site).Response
       /\ final.Status = decide_overall(final.per_site).Status

\* the Price a result supplies: a structured body with a Price that is
\* neither missing nor null and that is a number or the text of one
SuppliesPrice(r) ==
  /\ HasBody(r)
  /\ r.parsed_response.Price.t \in { "num", "str", "true", "false" }
  /\ r.parsed_response.Price.t = "str" =>
       /\ Len(r.parsed_response.Price.s) > 0
       /\ \A k \in 1..Len(r.parsed_response.Price.s) :
            \E d \in 1..10 : DIGITS[d] = r.parsed_response.Price.s[k]

Suppliers(rs) == { k \in 1..Len(rs) : SuppliesPrice(rs[k]) }

RECURSIVE SuppliedTotal(_, _)
SuppliedTotal(rs, ks) ==
  IF ks = { } THEN 0
  ELSE LET k == CHOOSE x \in ks : TRUE
       IN  float_of(rs[k].parsed_response.Price) + SuppliedTotal(rs, ks \ { k })

\* m hundredths is total / count rounded to two decimals
IsMean2(m, total, count) ==
  /\ 2 * (100 * total - m * count) <= count
  /\ 2 * (m * count - 100 * total) <= count
  /\ (2 * (100 * total - m * count) = count \/ 2 * (m * count - 100 * total) = count)
       => m % 2 = 0

\* C12: the overall Price is the mean, rounded to two decimals, of the Price
\* values of exactly the results that supply one, and None when none does.
C12_PriceIsMeanOfSupplied ==
  Aggregated =>
    IF Suppliers(agg_in) = { }
      THEN ~agg_out.Price.some
      ELSE /\ agg_out.Price.some
           /\ IsMean2(agg_out.Price.v, SuppliedTotal(agg_in, Suppliers(agg_in)),
                      Cardinality(Suppliers(agg_in)))

\* C12 witness: two results supply 10 and 20, a third supplies a Price that
\* is no number, and the mean is 15.00
C12_Witness ==
  /\ Aggregated
  /\ Len(agg_in) = 3
  /\ agg_in[1].parsed_response.Price = JNum(10)
  /\ agg_in[2].parsed_response.Price = JStr(T_ABC)
  /\ agg_in[3].parsed_response.Price = JStr(T_20)
  /\ agg_out.Price = SomeInt(1500)

\* C13 as claimed: every result of a transport failure counts as an error
\* signal, so an answer with at least one failed call and no live signal is
\* GENERIC_ERROR with Status "false" (in particular when every call failed).
C13_FailureIsErrorSignal ==
  (gw_pc = "responded"
     /\ (\E k \in 1..Len(final.per_site) : final.per_site[k].error.some)
     /\ ~AnyLive(final.per_site))
    => (final.Response = "GENERIC_ERROR" /\ final.Status = "false")

\* the results with the Price of the k-th body replaced by null
WithNullPrice(rs, k) ==
  [rs EXCEPT ![k].parsed_response.Price = JNull]

\* a structured body whose Price is there and is no number
BadPrice(r) ==
  /\ HasBody(r)
  /\ r.parsed_response.Price.t \notin { "absent", "null" }
  /\ ~SuppliesPrice(r)

\* C16: decide_overall returns a verdict on every list, whatever fields the
\* structured bodies miss or mistype; a Price that is no number counts as if
\* it were null: the verdict, the status and the mean over the other results
\* are those of the same list without that Price.
C16_BadPriceOnlyDropped ==
  Aggregated =>
    /\ agg_out.Response \in VERDICT_LABELS
    /\ \A k \in 1..Len(agg_in) :
         BadPrice(agg_in[k]) => decide_overall(WithNullPrice(agg_in, k)) = agg_out
    /\ (\E k \in 1..Len(agg_in) : ErrorSignal(agg_in[k]) /\ BadPrice(agg_in[k]))
         => agg_out.Response \in { "LIVE", "GENERIC_ERROR" }

\* C16 witness: the first body has an error keyword and the Price "abc", the
\* second the Price "20": the verdict is GENERIC_ERROR and the mean 20.00
C16_Witness ==
  /\ Aggregated
  /\ Len(agg_in) = 2
  /\ agg_in[1].parsed_response = json_loads(BODY_ERR_TEXT)
  /\ agg_in[2].parsed_response = json_loads(BODY_DECLINED)
  /\ agg_out = [Response |-> "GENERIC_ERROR", Status |-> "false", Price |-> SomeInt(2000)]

\* a text without its leading and trailing blanks
RECURSIVE trim(_)
trim(s) ==
  IF Len(s) = 0 THEN s
  ELSE IF Head(s) = " " THEN trim(Tail(s))
  ELSE IF s[Len(s)] = " " THEN trim(SubSeq(s, 1, Len(s) - 1))
  ELSE s

\* at least four fields between the delimiters, the first four non-empty
\* after trimming
FullRecord(cc) ==
  /\ Len(split(cc)) >= 4
  /\ \A f \in 1..4 : Len(trim(split(cc)[f])) > 0

\* C18 as claimed: a fan-out is started only for a record whose four fields
\* are present and non-empty after trimming; an authorized request with any
\* other record is answered 400 and issues no call.
C18_FanOutOnlyForFullRecord ==
  /\ gw_pc = "gathering" => FullRecord(params.cc)
  /\ (gw_pc # "request" /\ Authorized /\ ~FullRecord(params.cc)) =>
       (gw_pc = "rejected" /\ http_code = 400 /\ site_tasks = << >>)

\* the results with the HTTP status of the k-th one replaced
WithStatus(rs, k, st) == [rs EXCEPT ![k].http_status = SomeInt(st)]

\* the results with the parsed body of the k-th one taken away
WithoutParsed(rs, k) == [rs EXCEPT ![k].parsed_response = PyNone]

\* C20: the HTTP status of a result with a non-empty dict body is not looked
\* at (200 or 500, the verdict is the same, and such a body without error
\* keyword gives no error signal); a result whose parsed body is an empty dict
\* or no dict counts exactly as one with no parsed body at all.
C20_StatusOnlyWithoutBody ==
  Aggregated =>
    /\ \A k \in 1..Len(agg_in) :
         IF HasBody(agg_in[k])
           THEN /\ decide_overall(WithStatus(agg_in, k, 200)) = agg_out
                /\ decide_overall(WithStatus(agg_in, k, 500)) = agg_out
           ELSE decide_overall(WithoutParsed(agg_in, k)) = agg_out
    /\ (Len(agg_in) = 1 /\ HasBody(agg_in[1]) /\ ~ErrorSignal(agg_in[1]))
         => agg_out.Response # "GENERIC_ERROR"
    /\ (Len(agg_in) = 1 /\ ~HasBody(agg_in[1]) /\ ~agg_in[1].error.some) =>
         (agg_out.Response = "GENERIC_ERROR"
            <=> (agg_in[1].http_status.some /\ agg_in[1].http_status.v >= 400))
    /\ (Len(agg_in) = 1 /\ ~HasBody(agg_in[1])) => agg_out.Response # "LIVE"

\* C20 witness: a declined body under status 500 and the list ["LIVE"] under
\* status 200 are judged UNKNOWN
C20_Witness ==
  /\ Aggregated
  /\ Len(agg_in) = 2
  /\ agg_in[1].parsed_response = json_loads(BODY_DECLINED)
  /\ agg_in[1].http_status = SomeInt(500)
  /\ agg_in[2].parsed_response = PyList
  /\ agg_in[2].http_status = SomeInt(200)
  /\ agg_out.Response = "UNKNOWN"

\* C14 under a fair event loop, with a ceiling of at least 1 and every call
\* ending: every task of a fan-out that was started reaches its terminal
\* state, so gather has all its results, and a task that waits for a permit
\* gets one.
C14_FanOutReturns ==
  /\ (gw_pc = "gathering") ~> (gw_pc # "request" /\ AllDone)
  /\ \A i \in 1..Len(PlannedSites) :
       (gw_pc = "gathering" /\ pc[i] = "waiting")
         ~> (gw_pc = "gathering" /\ pc[i] = "calling")

\* C14 witness: with one permit, an answer after every task but the first
\* had to wait for its permit
C14_Witness ==
  /\ gw_pc = "responded"
  /\ maxc = 1
  /\ Len(pc) > MAX_CONCURRENT
  /\ \A i \in Tasks : pc[i] = "done" /\ acquires[i] = 1
  /\ \E i \in Tasks : call_end[i] = Raised(EXC_TIMEOUT)

\* the sample texts that parse as JSON
JsonTexts == (Bodies \cup { BODY_NAN_PRICE }) \ { BODY_HTML }

\* C15: a finished task's result has the response shape (status and raw body
\* present, error null, parsed body present only if the raw body is JSON) when
\* its call ended with a response, whether or not the body parsed, and the
\* failure shape (error set, the other three absent) when it ended with an
\* exception; so the error field is set exactly when no response came.
C15_TwoResultShapes ==
  \A i \in 1..Len(pc) :
    pc[i] = "done" =>
      /\ call_end[i].kind \in { "response", "exception" }
      /\ call_end[i].kind = "response" =>
           /\ task_result[i].http_status = SomeInt(call_end[i].status)
           /\ task_result[i].raw_response = SomeStr(call_end[i].body)
           /\ ~task_result[i].error.some
           /\ (task_result[i].parsed_response # PyNone) => (call_end[i].body \in JsonTexts)
      /\ call_end[i].kind = "exception" =>
           /\ task_result[i].error.some
           /\ ~task_result[i].http_status.some
           /\ ~task_result[i].raw_response.some
           /\ task_result[i].parsed_response = PyNone
      /\ task_result[i].error.some <=> (call_end[i].kind # "response")

\* C15 witness: three finished tasks, one with a JSON body, one with a body
\* that is no JSON and one whose call timed out
C15_Witness ==
  /\ gw_pc = "gathering"
  /\ \E a, b, c \in 1..Len(pc) :
       /\ pc[a] = "done" /\ call_end[a] = Response(200, BODY_LIVE)
       /\ pc[b] = "done" /\ call_end[b] = Response(502, BODY_HTML)
       /\ task_result[b].parsed_response = PyNone /\ ~task_result[b].error.some
       /\ pc[c] = "done" /\ call_end[c] = Raised(EXC_TIMEOUT)
       /\ task_result[c].error = SomeStr("")

\* C17 as claimed: the duration a task records when its call ends, on either
\* path, is the time since it acquired its permit.
C17_DurationFromAcquisition ==
  [][\A i \in 1..Len(pc) :
       (pc[i] = "calling" /\ pc'[i] = "done")
         => duration_ms'[i] = 1000 * (now - acquired_at[i])]_vars

\* the permits held: one per call in flight
Held == Cardinality({ i \in 1..Len(pc) : pc[i] = "calling" })

\* C19: while the fan-out runs and after it, the permits held plus the
\* permits free make the ceiling; no task acquires or releases twice, a task
\* in flight has acquired and not released, a finished task has done both,
\* and after the join every permit is free.
C19_PermitsConserved ==
  gw_pc \in { "gathering", "responded" } =>
    /\ sem_value >= 0
    /\ sem_value + Held = maxc
    /\ \A i \in 1..Len(pc) :
         /\ acquires[i] \in { 0, 1 }
         /\ releases[i] \in { 0, 1 }
         /\ releases[i] <= acquires[i]
         /\ pc[i] \in { "created", "waiting" } => acquires[i] = 0
         /\ pc[i] = "calling" => (acquires[i] = 1 /\ releases[i] = 0)
         /\ pc[i] = "done" => (acquires[i] = 1 /\ releases[i] = 1)
    /\ gw_pc = "responded" => sem_value = maxc

\* C19 witness: an answer after failures and responses, with two permits
\* handed from task to task and both free again
C19_Witness ==
  /\ gw_pc = "responded"
  /\ maxc = 2
  /\ sem_value = 2
  /\ \E a, b \in 1..Len(pc) :
       /\ call_end[a].kind = "exception"
       /\ call_end[b].kind = "response"

====
